---------------------------- MODULE Spec2Model ----------------------------
(***************************************************************************)
(* A model of src/minesweeper.py: the Minesweeper board (the mine          *)
(* placement and its adjacent-mine count), the Sentence class and the      *)
(* MinesweeperAI knowledge base with its three entry points add_knowledge, *)
(* make_safe_move and make_random_move.                                    *)
(*                                                                         *)
(* A cell is the tuple <<i, j>> (row, column).  A sentence is the record   *)
(* [cells |-> set of cells, count |-> integer].  knowledge is a sequence   *)
(* of sentences, in the order of the Python list.                          *)
(***************************************************************************)
EXTENDS Integers, Sequences, FiniteSets

VARIABLES
    height,      \* Minesweeper.height = MinesweeperAI.height
    width,       \* Minesweeper.width = MinesweeperAI.width
    board,       \* Minesweeper.mines: the cells of the board that hold a mine
    moves_made,  \* MinesweeperAI.moves_made
    mines,       \* MinesweeperAI.mines
    safes,       \* MinesweeperAI.safes
    knowledge,   \* MinesweeperAI.knowledge
    observed,    \* history: the cells add_knowledge has been called with
    op,          \* history: the entry point called last
    ret,         \* history: what that call returned
    calls,       \* history: the number of calls made so far
    looping      \* TRUE when the last add_knowledge call is still inside its
                 \* "while new_knowledge" loop after MaxPasses pair scans

vars == <<height, width, board, moves_made, mines, safes, knowledge,
          observed, op, ret, calls, looping>>

(***************************************************************************)
(* Bounds of the model.                                                    *)
(***************************************************************************)
\* The board sizes explored, <<height, width>>: the 3 x 3 board of the
\* scenarios, a 2 x 2 board and a board with fewer rows than columns.
Dims == {<<3, 3>>, <<2, 2>>, <<1, 2>>}
\* At most this many mines are placed on a board.
MaxMines == 1
\* At most this many calls of the entry points are made in one behaviour.
MaxCalls == 3
\* The "while new_knowledge" loop is followed for at most this many pair scans.
MaxPasses == 6

\* Python's None, as a value that can be compared with a cell.
None == <<>>

(***************************************************************************)
(* The board (class Minesweeper).                                          *)
(***************************************************************************)
Grid(h, w) == (0 .. h - 1) \X (0 .. w - 1)

InBounds(c) == 0 <= c[1] /\ c[1] < height /\ 0 <= c[2] /\ c[2] < width

\* Around with the diagonal neighbours left out.
AroundOrthogonal(cell) ==
    { <<cell[1] - 1, cell[2]>>, <<cell[1] + 1, cell[2]>>,
      <<cell[1], cell[2] - 1>>, <<cell[1], cell[2] + 1>> }

\* The cells within one row and column of cell, the cell itself excluded:
\* the two nested range(cell - 1, cell + 2) loops, out-of-bounds pairs included.
Around(cell) ==
    { <<i, j>> : i \in (cell[1] - 1) .. (cell[1] + 1),
                 j \in (cell[2] - 1) .. (cell[2] + 1) } \ {cell}

is_mine(cell) == cell \in board

nearby_mines(cell) ==
    Cardinality({ c \in Around(cell) : InBounds(c) /\ c \in board })

\* The boards Minesweeper.__init__ can build: any placement of the mines.
Boards(h, w) == { b \in SUBSET Grid(h, w) : Cardinality(b) <= MaxMines }

(***************************************************************************)
(* class Sentence.                                                         *)
(***************************************************************************)
Sentence(cells, count) == [cells |-> cells, count |-> count]

\* Sentence.__eq__
SentenceEq(a, b) == a.cells = b.cells /\ a.count = b.count

\* Sentence.mark_safe that lowers count as mark_mine does.
SentenceMarkSafeDecrements(s, cell) ==
    IF cell \in s.cells THEN Sentence(s.cells \ {cell}, s.count - 1) ELSE s

\* Sentence.mark_safe
SentenceMarkSafe(s, cell) ==
    IF cell \in s.cells THEN Sentence(s.cells \ {cell}, s.count) ELSE s

\* Sentence.mark_mine
SentenceMarkMine(s, cell) ==
    IF cell \in s.cells THEN Sentence(s.cells \ {cell}, s.count - 1) ELSE s

\* A returned value that is not None.  A returned cell <<i, j>> stands for
\* itself; a returned set of cells is wrapped, so that it can be compared
\* with None.
Returned(value) == <<value>>

\* Sentence.known_mines as line 111 has it, without "and self.count != 0".
known_mines_without_zero_test(s) ==
    IF Cardinality(s.cells) = s.count THEN Returned(s.cells) ELSE None

\* Sentence.known_mines
known_mines(s) ==
    IF Cardinality(s.cells) = s.count /\ s.count # 0
    THEN Returned(s.cells) ELSE None

\* Sentence.known_safes: "not self.count" is true of the integer 0 only.
known_safes(s) ==
    IF ~(s.count # 0) THEN Returned(s.cells) ELSE None

(***************************************************************************)
(* Python list operations on a list of sentences.                          *)
(***************************************************************************)
\* "sentence in k"
Contains(k, s) == \E i \in 1 .. Len(k) : SentenceEq(k[i], s)

\* "k.remove(sentence)": removes the first element equal to sentence.
RemoveFirst(k, s) ==
    LET i == CHOOSE n \in 1 .. Len(k) :
                 /\ SentenceEq(k[n], s)
                 /\ \A m \in 1 .. (n - 1) : ~SentenceEq(k[m], s)
    IN  SubSeq(k, 1, i - 1) \o SubSeq(k, i + 1, Len(k))

(***************************************************************************)
(* MinesweeperAI.mark_safe / mark_mine.  Each is two operators: what it    *)
(* does to the set (safes, mines) and what it does to the sentences of a   *)
(* knowledge list.                                                         *)
(***************************************************************************)
\* mark_safe without self.safes.add(cell).
mark_safe_set_forgets(sf, cell) == sf

\* mark_safe that assigns {cell} to self.safes instead of adding to it.
mark_safe_set_replaces(sf, cell) == {cell}

\* Line 189: self.safes.add(cell)
mark_safe_set(sf, cell) == sf \cup {cell}

\* Lines 190-191
mark_safe(k, cell) == [i \in 1 .. Len(k) |-> SentenceMarkSafe(k[i], cell)]

\* Line 180: self.mines.add(cell)
mark_mine_set(mn, cell) == mn \cup {cell}

\* Lines 181-182
mark_mine(k, cell) == [i \in 1 .. Len(k) |-> SentenceMarkMine(k[i], cell)]

RECURSIVE MarkSetAll(_, _, _)
\* mark_safe_set (asMine = FALSE) or mark_mine_set (asMine = TRUE) for every
\* cell of cs.
MarkSetAll(set, cs, asMine) ==
    IF cs = {} THEN set
    ELSE LET c == CHOOSE x \in cs : TRUE
         IN  MarkSetAll(IF asMine THEN mark_mine_set(set, c)
                        ELSE mark_safe_set(set, c),
                        cs \ {c}, asMine)

RECURSIVE MarkAll(_, _, _)
\* mark_safe (asMine = FALSE) or mark_mine (asMine = TRUE) for every cell of cs.
MarkAll(k, cs, asMine) ==
    IF cs = {} THEN k
    ELSE LET c == CHOOSE x \in cs : TRUE
         IN  MarkAll(IF asMine THEN mark_mine(k, c) ELSE mark_safe(k, c),
                     cs \ {c}, asMine)

(***************************************************************************)
(* add_knowledge, lines 216-235: the sentence built from the observation.  *)
(* sf, mm and mn are safes, moves_made and mines when the loop runs.       *)
(***************************************************************************)
NewSentence(cell, count, sf, mm, mn) ==
    LET undetermined(c) == c \notin sf /\ c \notin mm
        known == { c \in Around(cell) : undetermined(c) /\ c \in mn }
        cell_neighbors ==
            { c \in Around(cell) :
                undetermined(c) /\ c \notin mn /\ InBounds(c) }
    IN  Sentence(cell_neighbors, count - Cardinality(known))

(***************************************************************************)
(* add_knowledge, lines 240-262: the scan of the deep copy k.  The for     *)
(* loop walks k by position while k.remove shortens it; mark_safe and      *)
(* mark_mine act on self.knowledge (live), which line 262 then replaces    *)
(* by k.                                                                   *)
(***************************************************************************)
ScanStep(st, i) ==
    LET sentence == st.k[i]
        length == Cardinality(sentence.cells)
        \* lines 245-246
        k1 == IF length = 0 /\ sentence.count = 0
              THEN RemoveFirst(st.k, sentence) ELSE st.k
        \* lines 248-254
        isSafe == length >= 1 /\ sentence.count = 0
        live2 == IF isSafe
                 THEN MarkAll(st.live, sentence.cells \ st.safes, FALSE)
                 ELSE st.live
        safes2 == IF isSafe
                  THEN MarkSetAll(st.safes, sentence.cells \ st.safes, FALSE)
                  ELSE st.safes
        k2 == IF isSafe /\ Contains(k1, sentence)
              THEN RemoveFirst(k1, sentence) ELSE k1
        \* lines 256-261
        isMine == length >= 1 /\ length = sentence.count
        live3 == IF isMine
                 THEN MarkAll(live2, sentence.cells \ st.mines, TRUE)
                 ELSE live2
        mines3 == IF isMine
                  THEN MarkSetAll(st.mines, sentence.cells \ st.mines, TRUE)
                  ELSE st.mines
        k3 == IF isMine /\ Contains(k2, sentence)
              THEN RemoveFirst(k2, sentence) ELSE k2
    IN  [k |-> k3, live |-> live3, safes |-> safes2, mines |-> mines3]

RECURSIVE ScanFrom(_, _)
\* The for loop from position i on: it ends when i is past the end of k.
ScanFrom(st, i) ==
    IF i > Len(st.k) THEN st ELSE ScanFrom(ScanStep(st, i), i + 1)

\* Lines 240-262; the result's k is the new self.knowledge.
Scan(kn, sf, mn) ==
    LET st == [k |-> kn, live |-> kn, safes |-> sf, mines |-> mn]
    IN  IF kn # <<>> THEN ScanFrom(st, 1) ELSE st

(***************************************************************************)
(* add_knowledge, lines 268-297: subset inference.                         *)
(***************************************************************************)
\* Lines 284-286 and 293-295.
AppendNew(live, s) == IF Contains(live, s) THEN live ELSE Append(live, s)

\* Combine with the counts subtracted the wrong way round.
CombineSwapped(sa, sb, live) ==
    IF sa.cells = sb.cells THEN live
    ELSE IF sa.cells \cap sb.cells # {}
    THEN IF sa.cells \subseteq sb.cells
         THEN AppendNew(live, Sentence(sb.cells \ sa.cells, sa.count - sb.count))
         ELSE IF sb.cells \subseteq sa.cells
         THEN AppendNew(live, Sentence(sa.cells \ sb.cells, sb.count - sa.count))
         ELSE live
    ELSE live

\* The body of the for loop for one pair (sa, sb), lines 276-297.
Combine(sa, sb, live) ==
    IF sa.cells = sb.cells THEN live
    ELSE IF sa.cells \cap sb.cells # {}
    THEN IF sa.cells \subseteq sb.cells
         THEN AppendNew(live, Sentence(sb.cells \ sa.cells, sb.count - sa.count))
         ELSE IF sb.cells \subseteq sa.cells
         THEN AppendNew(live, Sentence(sa.cells \ sb.cells, sa.count - sb.count))
         ELSE live
    ELSE live

RECURSIVE PairScan(_, _, _, _)
\* itertools.combinations(pool, 2) from the pair of positions (a, b) on: pool
\* is the tuple taken from self.knowledge when the for loop starts, live is
\* self.knowledge, which grows while the loop runs.
PairScan(pool, live, a, b) ==
    IF a >= Len(pool) THEN live
    ELSE IF b > Len(pool) THEN PairScan(pool, live, a + 1, a + 2)
    ELSE PairScan(pool, Combine(pool[a], pool[b], live), a, b + 1)

\* One iteration of "while new_knowledge", lines 271-297.
InferPass(kn) == IF Len(kn) >= 2 THEN PairScan(kn, kn, 1, 2) ELSE kn

RECURSIVE InferLoop(_, _)
\* The while loop, followed for at most fuel iterations: returned is FALSE
\* when every one of them appended a sentence, so that the loop goes on.
InferLoop(kn, fuel) ==
    IF fuel = 0 THEN [k |-> kn, returned |-> FALSE]
    ELSE LET k1 == InferPass(kn)
         IN  IF Len(k1) > Len(kn) THEN InferLoop(k1, fuel - 1)
             ELSE [k |-> k1, returned |-> TRUE]

(***************************************************************************)
(* make_random_move, line 337: "random_cell not in self.mines", where      *)
(* random_cell is the set {(i, j)} and the members of cellSet are tuples.  *)
(* Python looks a set up in a set by its frozenset, and a frozenset is     *)
(* equal to no tuple.                                                      *)
(***************************************************************************)
PyIn(kind, value, cellSet) ==
    IF kind = "tuple" THEN value \in cellSet ELSE FALSE

(***************************************************************************)
(* The state after construction: a board, and MinesweeperAI.__init__.      *)
(***************************************************************************)
\* MinesweeperAI.__init__
InitAI ==
    /\ moves_made = {}
    /\ mines = {}
    /\ safes = {}
    /\ knowledge = <<>>
    /\ observed = {}
    /\ op = "init"
    /\ ret = None
    /\ calls = 0
    /\ looping = FALSE

Init ==
    /\ \E d \in Dims :
         /\ height = d[1]
         /\ width = d[2]
         /\ board \in Boards(d[1], d[2])
    /\ InitAI

\* No call is running, and fewer than limit calls have been made.
Idle(limit) == ~looping /\ calls < limit

(***************************************************************************)
(* add_knowledge(cell, count), called as the game calls it: on a cell of   *)
(* the board that is no mine and was not passed before, with the board's   *)
(* own count.                                                              *)
(***************************************************************************)
\* Lines 208-237: the knowledge base as the scan of line 240 finds it.
BeforeScan(cell, count) ==
    LET mm1 == moves_made \cup {cell}                       \* line 209
        sf1 == mark_safe_set(safes, cell)                   \* line 211
        k1 == mark_safe(knowledge, cell)
        k2 == Append(k1, NewSentence(cell, count, sf1, mm1, mines))
    IN  [k |-> k2, safes |-> sf1, mines |-> mines, moves_made |-> mm1]

add_knowledge(cell, count) ==
    LET pre == BeforeScan(cell, count)
        sc == Scan(pre.k, pre.safes, pre.mines)
        inf == InferLoop(sc.k, MaxPasses)
    IN  /\ moves_made' = pre.moves_made
        /\ safes' = sc.safes
        /\ mines' = sc.mines
        /\ knowledge' = inf.k
        /\ looping' = ~inf.returned
        /\ ret' = None

AddKnowledgeWithin(limit) ==
    /\ Idle(limit)
    /\ \E cell \in Grid(height, width) :
         /\ ~is_mine(cell)
         /\ cell \notin observed
         /\ add_knowledge(cell, nearby_mines(cell))
         /\ observed' = observed \cup {cell}
    /\ op' = "add_knowledge"
    /\ calls' = calls + 1
    /\ UNCHANGED <<height, width, board>>

AddKnowledge == AddKnowledgeWithin(MaxCalls)

(***************************************************************************)
(* make_safe_move(): random.choice is any member of the list.              *)
(***************************************************************************)
\* Line 310 without "- self.moves_made".
SafesIncludingMoves(sf, mm) == sf

\* Line 310
SafesNotInMoves(sf, mm) == sf \ mm

make_safe_move ==
    LET safes_not_in_moves == SafesNotInMoves(safes, moves_made)
    IN  IF Cardinality(safes_not_in_moves) >= 1
        THEN \E move \in safes_not_in_moves :
               /\ moves_made' = moves_made \cup {move}
               /\ safes' = mark_safe_set(safes, move)
               /\ knowledge' = mark_safe(knowledge, move)
               /\ ret' = move
        ELSE /\ ret' = None
             /\ UNCHANGED <<moves_made, safes, knowledge>>

MakeSafeMoveWithin(limit) ==
    /\ Idle(limit)
    /\ make_safe_move
    /\ op' = "make_safe_move"
    /\ calls' = calls + 1
    /\ UNCHANGED <<height, width, board, mines, observed, looping>>

MakeSafeMove == MakeSafeMoveWithin(MaxCalls)

(***************************************************************************)
(* make_random_move(): both random.randint(0, self.width - 1) draws are    *)
(* any number of 0 .. width - 1.                                           *)
(***************************************************************************)
make_random_move ==
    LET available_moves ==
            (height * width) - (Cardinality(moves_made) + Cardinality(mines))
    IN  IF available_moves = 0
        THEN /\ ret' = None
             /\ UNCHANGED <<moves_made, safes, knowledge>>
        ELSE \E i \in 0 .. (width - 1), j \in 0 .. (width - 1) :
               LET random_cell == {<<i, j>>}
                   move == <<i, j>>
               IN  IF /\ ~PyIn("set", random_cell, mines)
                      /\ ~PyIn("set", random_cell, moves_made)
                   THEN /\ moves_made' = moves_made \cup {move}
                        /\ safes' = mark_safe_set(safes, move)
                        /\ knowledge' = mark_safe(knowledge, move)
                        /\ ret' = move
                   ELSE /\ ret' = None
                        /\ UNCHANGED <<moves_made, safes, knowledge>>

MakeRandomMoveWithin(limit) ==
    /\ Idle(limit)
    /\ make_random_move
    /\ op' = "make_random_move"
    /\ calls' = calls + 1
    /\ UNCHANGED <<height, width, board, mines, observed, looping>>

MakeRandomMove == MakeRandomMoveWithin(MaxCalls)

Next == AddKnowledge \/ MakeSafeMove \/ MakeRandomMove

\* Every interleaving of the three entry points.
Spec == Init /\ [][Next]_vars

\* add_knowledge calls only.
NextObserve == AddKnowledge
SpecObserve == Init /\ [][NextObserve]_vars

\* add_knowledge and make_safe_move calls.
NextSafe == AddKnowledge \/ MakeSafeMove
SpecSafe == Init /\ [][NextSafe]_vars

\* The cells next to the grid and outside it.
OutOfBounds == ((-1 .. height) \X (-1 .. width)) \ Grid(height, width)

\* add_knowledge(cell, count) called against its precondition: on a cell that
\* is out of bounds or already in moves_made, with the board's count of the
\* mines around it.  The code checks neither and runs as for any other cell.
AddKnowledgeInvalid ==
    /\ Idle(MaxCalls)
    /\ \E cell \in OutOfBounds \cup moves_made :
         /\ add_knowledge(cell, nearby_mines(cell))
         /\ observed' = observed \cup {cell}
    /\ op' = "add_knowledge_invalid"
    /\ calls' = calls + 1
    /\ UNCHANGED <<height, width, board>>

\* add_knowledge calls, valid or not.
NextInvalid == AddKnowledge \/ AddKnowledgeInvalid
SpecInvalid == Init /\ [][NextInvalid]_vars

\* Sentence.known_mines and Sentence.known_safes, which nothing in the file
\* calls, applied to any one sentence over the cells of a board: knowledge
\* holds the sentence, whose count ranges from -1 to one more than the
\* number of its cells.
InitSentence ==
    /\ \E d \in Dims :
         /\ height = d[1]
         /\ width = d[2]
         /\ \E cells \in SUBSET Grid(d[1], d[2]) :
              \E count \in -1 .. (Cardinality(cells) + 1) :
                  knowledge = <<Sentence(cells, count)>>
    /\ board = {}
    /\ moves_made = {}
    /\ mines = {}
    /\ safes = {}
    /\ observed = {}
    /\ op = "init"
    /\ ret = None
    /\ calls = 0
    /\ looping = FALSE

KnownMines ==
    /\ op' = "known_mines"
    /\ ret' = known_mines(knowledge[1])
    /\ UNCHANGED <<height, width, board, moves_made, mines, safes, knowledge,
                   observed, calls, looping>>

KnownSafes ==
    /\ op' = "known_safes"
    /\ ret' = known_safes(knowledge[1])
    /\ UNCHANGED <<height, width, board, moves_made, mines, safes, knowledge,
                   observed, calls, looping>>

NextSentence == KnownMines \/ KnownSafes
SpecSentence == InitSentence /\ [][NextSentence]_vars

\* One more mine and one more call than the other specifications, on the
\* 3 x 3 boards whose mines all lie in the first row.
DeepBoards ==
    { b \in SUBSET Grid(3, 3) :
        Cardinality(b) = MaxMines + 1 /\ \A c \in b : c[1] = 0 }

InitDeep ==
    /\ height = 3
    /\ width = 3
    /\ board \in DeepBoards
    /\ InitAI

AddKnowledgeDeep == AddKnowledgeWithin(MaxCalls + 1)
MakeSafeMoveDeep == MakeSafeMoveWithin(MaxCalls + 1)
MakeRandomMoveDeep == MakeRandomMoveWithin(MaxCalls + 1)

NextDeep == AddKnowledgeDeep \/ MakeSafeMoveDeep \/ MakeRandomMoveDeep
SpecDeep == InitDeep /\ [][NextDeep]_vars


(***************************************************************************)
(* Properties.                                                             *)
(***************************************************************************)
\* The last call was add_knowledge and it has returned.
AddKnowledgeReturned == op = "add_knowledge" /\ ~looping

\* C1 (soundness): after every add_knowledge call of a sequence of valid
\* add_knowledge calls, every cell in mines is a mine of the board and every
\* cell in safes is not a mine of the board.
C1_Soundness ==
    AddKnowledgeReturned => (mines \subseteq board /\ safes \cap board = {})

\* A call has deduced a mine and a safe cell that was never observed.
C1_Witness ==
    /\ AddKnowledgeReturned
    /\ mines # {}
    /\ safes \ moves_made # {}

\* C2 (invariant preservation): after any sequence of valid add_knowledge
\* calls, mines and safes are disjoint and moves_made is a subset of safes.
C2_Invariant ==
    AddKnowledgeReturned => (mines \cap safes = {} /\ moves_made \subseteq safes)

\* After three calls both a mine and a safe cell are known.
C2_Witness ==
    /\ AddKnowledgeReturned
    /\ Cardinality(moves_made) = 3
    /\ mines # {}
    /\ safes # {}

C4_RandomMoveFresh ==
    [][ (op' = "make_random_move" /\ ret' # None) =>
          (ret' \notin mines /\ ret' \notin moves_made) ]_vars

\* C5 (scenario C): in every reachable state in which moves_made \cup mines
\* contains every cell of the grid, make_random_move returns None.
C5_RandomMoveNone ==
    [][ ( /\ Grid(height, width) \subseteq (moves_made \cup mines)
          /\ op' = "make_random_move" ) => ret' = None ]_vars

\* C6: when a valid add_knowledge call returns, no sentence in knowledge
\* contains a cell that is in safes or in mines.
C6_NoKnownCell ==
    AddKnowledgeReturned =>
        \A n \in 1 .. Len(knowledge) :
            knowledge[n].cells \cap (safes \cup mines) = {}

\* C7: when a valid add_knowledge call returns, knowledge contains no two
\* sentences with the same cell set and the same count.
C7_NoDuplicate ==
    AddKnowledgeReturned =>
        \A m, n \in 1 .. Len(knowledge) :
            m # n => ~SentenceEq(knowledge[m], knowledge[n])

\* C8: when a valid add_knowledge call returns, knowledge contains no
\* sentence with an empty cell set.
C8_NoVacuous ==
    AddKnowledgeReturned =>
        \A n \in 1 .. Len(knowledge) : knowledge[n].cells # {}

\* Scenario A: the 3 x 3 board whose single mine is at (0,0), and the one
\* call add_knowledge((2,2), 0) made from the empty knowledge base.
ScenarioA ==
    /\ height = 3 /\ width = 3
    /\ board = {<<0, 0>>}
    /\ AddKnowledgeReturned
    /\ calls = 1
    /\ observed = {<<2, 2>>}

\* C9 (scenario A): after add_knowledge((2,2), 0) returns, safes contains
\* (1,1), (1,2) and (2,1) and mines is empty.
C9_ScenarioA ==
    ScenarioA => ({<<1, 1>>, <<1, 2>>, <<2, 1>>} \subseteq safes /\ mines = {})

C9_Witness == ScenarioA /\ <<1, 1>> \in safes /\ nearby_mines(<<2, 2>>) = 0

\* C10 (scenario B): on a 3 x 3 board, from the empty knowledge base, after
\* add_knowledge((0,1), 1) followed by add_knowledge((1,1), 1), the cells
\* (2,0), (2,1) and (2,2) are in safes when the second call returns.
C10_ScenarioB ==
    [][ ( /\ height = 3 /\ width = 3
          /\ calls = 1 /\ observed = {<<0, 1>>}
          /\ nearby_mines(<<0, 1>>) = 1
          /\ nearby_mines(<<1, 1>>) = 1
          /\ observed' = {<<0, 1>>, <<1, 1>>}
          /\ ~looping' )
        => {<<2, 0>>, <<2, 1>>, <<2, 2>>} \subseteq safes' ]_vars

\* C11 (monotonicity): across every single call of add_knowledge,
\* make_safe_move or make_random_move, each of mines, safes and moves_made
\* after the call is a superset of its value before the call.
C11_Monotonic ==
    [][ /\ mines \subseteq mines'
        /\ safes \subseteq safes'
        /\ moves_made \subseteq moves_made' ]_vars

\* Calls of all three entry points have been made and all three sets hold
\* something.
C11_Witness ==
    /\ calls = 3
    /\ op # "add_knowledge"
    /\ observed # {}
    /\ mines # {}
    /\ Cardinality(safes) >= 2
    /\ Cardinality(moves_made) >= 2

\* A knowledge list from which the while loop of lines 270-297 cannot reach
\* a pass that appends nothing: two sentences over the same cells u with
\* different counts a and b, and a sentence (y, c) over a non-empty proper
\* subset y of u.  A pass that appends nothing needs (u - y, a - c) and
\* (u - y, b - c) in the list, then (y, b - (a - c)), that is (y, c + (b - a)),
\* and so on for every c + n * (b - a); the loop only appends, so the three
\* sentences stay.
Diverges(kn) ==
    \E i, j, l \in 1 .. Len(kn) :
        /\ kn[i].cells = kn[j].cells
        /\ kn[i].count # kn[j].count
        /\ kn[l].cells # {}
        /\ kn[l].cells \subseteq kn[i].cells
        /\ kn[l].cells # kn[i].cells

\* C12 (termination): every add_knowledge call made with a valid observation
\* in a reachable state terminates: its while loop reaches a pair scan that
\* appends no sentence.
C12_Terminates ==
    op = "add_knowledge" => (~looping /\ ~Diverges(knowledge))

\* C13: make_safe_move changes nothing but moves_made: after any call mines,
\* safes and the list of sentences in knowledge are what they were before the
\* call, and when it returns None moves_made is unchanged too (scenario D).
C13_SafeMoveFrame ==
    [][ op' = "make_safe_move" =>
          /\ mines' = mines
          /\ safes' = safes
          /\ knowledge' = knowledge
          /\ (ret' = None => moves_made' = moves_made) ]_vars

\* C14: add_knowledge called with an out-of-bounds cell, or with a cell
\* already in moves_made, reports an error (it does not return None as a
\* completed call does) and leaves moves_made, safes, mines and knowledge
\* exactly as they were.
C14_RejectsInvalid ==
    [][ op' = "add_knowledge_invalid" =>
          /\ ret' # None
          /\ moves_made' = moves_made
          /\ safes' = safes
          /\ mines' = mines
          /\ knowledge' = knowledge ]_vars

\* C15 (trivial-constraint laws): for every sentence c with
\* 0 <= count <= |cells|, known_safes(c) is c.cells if c.count = 0 and None
\* otherwise, and known_mines(c) is c.cells if c.count = |c.cells| and
\* c.count > 0 and None otherwise.
C15_TrivialLaws ==
    LET c == knowledge[1]
        n == Cardinality(c.cells)
    IN  (0 <= c.count /\ c.count <= n) =>
          /\ op = "known_safes" =>
               /\ c.count = 0 => ret = Returned(c.cells)
               /\ c.count # 0 => ret = None
          /\ op = "known_mines" =>
               /\ (c.count = n /\ c.count > 0) => ret = Returned(c.cells)
               /\ ~(c.count = n /\ c.count > 0) => ret = None

\* known_mines has answered None for the empty sentence with count 0.
C15_Witness ==
    /\ op = "known_mines"
    /\ knowledge[1] = Sentence({}, 0)
    /\ ret = None

\* C16 (simplification fixpoint): when a valid add_knowledge call returns, no
\* sentence of knowledge with a non-empty cell set has count 0 or count equal
\* to its number of cells.
C16_NoTrivial ==
    AddKnowledgeReturned =>
        \A n \in 1 .. Len(knowledge) :
            LET c == knowledge[n]
            IN  c.cells # {} =>
                  (c.count # 0 /\ c.count # Cardinality(c.cells))

\* The cells a valid add_knowledge call can be made with.
ValidCells ==
    { cell \in Grid(height, width) : ~is_mine(cell) /\ cell \notin observed }

\* C17 (idempotent simplification): from any knowledge-base state add_knowledge
\* can be in just before its scan (lines 240-262), running the scan once and
\* then a second time, the second run changes neither mines, safes nor
\* knowledge.
C17_ScanIdempotent ==
    ~looping =>
        \A cell \in ValidCells :
            LET pre == BeforeScan(cell, nearby_mines(cell))
                once == Scan(pre.k, pre.safes, pre.mines)
                twice == Scan(once.k, once.safes, once.mines)
            IN  /\ twice.k = once.k
                /\ twice.safes = once.safes
                /\ twice.mines = once.mines

\* C18 (well-formed sentences): in every state reachable by valid
\* add_knowledge and make_safe_move calls, every sentence in knowledge
\* satisfies 0 <= count <= |cells|.
C18_WellFormed ==
    \A n \in 1 .. Len(knowledge) :
        /\ 0 <= knowledge[n].count
        /\ knowledge[n].count <= Cardinality(knowledge[n].cells)

\* After two calls knowledge holds a sentence of each kind: the two built
\* from the observations, one of them since shortened by mark_safe, and one
\* derived as their subset difference.
C18_Witness ==
    /\ AddKnowledgeReturned
    /\ calls = 2
    /\ Len(knowledge) = 3
    /\ knowledge[3].cells = knowledge[2].cells \ knowledge[1].cells

\* C19: in every reachable state, after a valid add_knowledge(cell, 0)
\* returns, every in-bounds neighbour of cell is in safes.
C19_ZeroCountNeighbours ==
    [][ \A cell \in ValidCells :
          ( /\ op' = "add_knowledge"
            /\ ~looping'
            /\ observed' = observed \cup {cell}
            /\ nearby_mines(cell) = 0 )
          => \A c \in Around(cell) : InBounds(c) => c \in safes' ]_vars

\* C20: for every board size, non-square boards included, every cell returned
\* by make_random_move is in bounds, so safes and moves_made never contain an
\* out-of-bounds cell.
C20_RandomMoveInBounds ==
    /\ (op = "make_random_move" /\ ret # None) => InBounds(ret)
    /\ \A c \in safes \cup moves_made : InBounds(c)

=============================================================================
